---- MODULE Spec2Model ----
(***************************************************************************)
(* Shore Roleplay radio signaling server (src/radio-server.js).            *)
(*                                                                         *)
(* State: the channel directory snapshot CHANNELS, the session registry    *)
(* clients (Map socket.id -> session), the primary member sets             *)
(* channelMembers (Map channelId -> Set socket.id, insertion ordered), the *)
(* socket.io rooms (the delivery sets), each connection's position in the  *)
(* async connection handler, and the wall clock.  Every handler is one     *)
(* action: node runs a handler's synchronous body without interleaving.    *)
(* The only suspension point is `await validateUser` in the connection     *)
(* handler, which is split into its lookups.                               *)
(*                                                                         *)
(* events is the list of messages emitted by the handler that ran last,    *)
(* in emission order; last names that handler and its input.  accepted     *)
(* and handled are history variables: the time of every accepted          *)
(* ptt_start of a session, and the second and the number of the signal     *)
(* chunk a session with a primary channel sent last (the n-th of that      *)
(* second).  refresh holds the GET /radio/channels requests of             *)
(* loadChannelsFromBackend that are in flight when request and answer are  *)
(* separate steps.                                                         *)
(*                                                                         *)
(* The minimal radio server of src/unnamed/part_006 is modelled over the   *)
(* same variables (users is clients, channels is channelMembers); naming   *)
(* holds its joinChannel calls that await fetchChannelName.                *)
(***************************************************************************)
EXTENDS Integers, Sequences, FiniteSets, TLC

VARIABLES CHANNELS, clients, channelMembers, rooms, phase, connected, now,
          events, last, accepted, handled, refresh, naming

vars == <<CHANNELS, clients, channelMembers, rooms, phase, connected, now,
          events, last, accepted, handled, refresh, naming>>

(* ------------------------------ bounds --------------------------------- *)

\* clock ticks under SpecRate / SpecChunk
MaxTicks == 2
\* seconds the clock runs under SpecBounded
MaxSeconds == 10
\* refresh requests the timer sends under SpecRefresh
MaxFetches == 3
\* signal chunks past the ceiling a client sends in one second
MaxOver == 2

\* the connections ever opened (a socket id is used once)
Sockets == {1, 2}

(* --------------------------- program constants ------------------------- *)

MAX_PTT_STARTS_PER_10S == 10
MAX_CHUNKS_PER_SECOND == 30
\* the literal 10_000 of the ptt_start filter
PTT_WINDOW_MS == 10000
\* the literal 5 of the chunksPerSecond clean-up
CHUNK_KEEP_SECONDS == 5

(* ------------------------------ data ----------------------------------- *)

\* state.currentChannel: null
NoChannel == "none"

ChannelIds == {"A", "B"}

\* user documents the backend can return
StaffUser == [id |-> "u1", isStaff |-> TRUE, department |-> "police", roles |-> {}]
FireUser == [id |-> "u2", isStaff |-> FALSE, department |-> "fire", roles |-> {}]
Profiles == {StaffUser, FireUser}

\* a truthy 2xx body that is no user document (an error object, say): every
\* profile field is missing
NotAProfile == [id |-> "", isStaff |-> FALSE, department |-> "", roles |-> {}]

\* the truthy values GET /users/validate can carry as `user`, and the truthy
\* bodies GET /users/:id can answer with
LookupBodies == Profiles \cup {NotAProfile}

ChanDef(id, type, dept) ==
    [id |-> id, type |-> type, department |-> dept, allowedRoles |-> {}]

\* bodies GET /radio/channels can answer with
Directories ==
    { <<ChanDef("A", "public", ""), ChanDef("B", "department", "fire")>>,
      <<ChanDef("A", "public", ""), ChanDef("B", "staff", "")>>,
      <<ChanDef("A", "public", "")>> }

(* ------------------------------ helpers -------------------------------- *)

Range(q) == {q[i] : i \in DOMAIN q}

\* new Map() / {} : no keys
EmptyMap == [x \in {} |-> 0]

MapPut(m, k, v) == [x \in DOMAIN m \cup {k} |-> IF x = k THEN v ELSE m[x]]

MapDelete(m, k) == [x \in DOMAIN m \ {k} |-> m[x]]

\* m[k] || 0
CountAt(m, k) == IF k \in DOMAIN m THEN m[k] ELSE 0

\* Set.prototype.delete on an insertion-ordered Set
SetDelete(q, x) == SelectSeq(q, LAMBDA y : y # x)

\* Set.prototype.add on an insertion-ordered Set
SetAdd(q, x) == IF x \in Range(q) THEN q ELSE Append(q, x)

HasChannel(id) == \E i \in DOMAIN CHANNELS : CHANNELS[i].id = id

getChannelById(id) ==
    CHANNELS[CHOOSE i \in DOMAIN CHANNELS :
                /\ CHANNELS[i].id = id
                /\ \A j \in DOMAIN CHANNELS : CHANNELS[j].id = id => i <= j]

userIsStaff(user) == user.isStaff \/ "staff" \in user.roles

getUserDisplay(user) ==
    [id |-> user.id, department |-> user.department, isStaff |-> userIsStaff(user)]

\* an evaluator whose custom branch skips the allowed-role restriction
userCanJoinChannel_NoRoleCheck(user, channel) ==
    LET staff == userIsStaff(user) IN
    CASE channel.type = "public" -> TRUE
      [] channel.type = "department" ->
            staff \/ (user.department # "" /\ user.department = channel.department)
      [] channel.type = "staff" -> staff
      [] channel.type = "custom" ->
            \/ staff
            \/ ~(channel.department # "" /\ user.department # channel.department)
      [] OTHER -> FALSE

userCanJoinChannel(user, channel) ==
    LET staff == userIsStaff(user) IN
    CASE channel.type = "public" -> TRUE
      [] channel.type = "department" ->
            staff \/ (user.department # "" /\ user.department = channel.department)
      [] channel.type = "staff" -> staff
      [] channel.type = "custom" ->
            \/ staff
            \/ /\ ~(channel.department # "" /\ user.department # channel.department)
               /\ (channel.allowedRoles # {} =>
                     channel.allowedRoles \cap user.roles # {})
      [] OTHER -> FALSE

\* one emitted message: its event name, the connections it is addressed to,
\* and the payload fields (sid: the session it was emitted for; sids: the
\* member sessions a roster was computed from)
Ev(type, to, ch, sid, st, roster, sids) ==
    [type |-> type, to |-> to, channelId |-> ch, sid |-> sid, state |-> st,
     roster |-> roster, sids |-> sids]

\* socket.emit(type, ...)
EmitSelf(s, type, ch) == Ev(type, {s}, ch, s, "", <<>>, <<>>)

NewSession(user) ==
    [user |-> user, currentChannel |-> NoChannel, monitoring |-> {},
     pttStarts |-> <<>>, chunksPerSecond |-> EmptyMap]

ensureChannelSet(cm, id) ==
    IF id \in DOMAIN cm THEN cm
    ELSE MapPut(cm, id, <<>>)

\* a broadcastRoster that emits to the members instead of the room
broadcastRoster_MembersOnly(cm, cl, rm, channelId) ==
    IF channelId \notin DOMAIN cm THEN <<>>
    ELSE LET live == SelectSeq(cm[channelId], LAMBDA sid : sid \in DOMAIN cl)
             roster == [i \in DOMAIN live |-> getUserDisplay(cl[live[i]].user)]
         IN <<Ev("channel_roster", Range(live), channelId, 0, "", roster, live)>>

\* a broadcastRoster that emits the roster twice
broadcastRoster_Twice(cm, cl, rm, channelId) ==
    IF channelId \notin DOMAIN cm THEN <<>>
    ELSE LET live == SelectSeq(cm[channelId], LAMBDA sid : sid \in DOMAIN cl)
             roster == [i \in DOMAIN live |-> getUserDisplay(cl[live[i]].user)]
             ev == Ev("channel_roster", rm[channelId], channelId, 0, "", roster, live)
         IN <<ev, ev>>

\* the messages broadcastRoster(channelId) emits, given the maps as they are
\* at the call
broadcastRoster(cm, cl, rm, channelId) ==
    IF channelId \notin DOMAIN cm THEN <<>>
    ELSE LET live == SelectSeq(cm[channelId], LAMBDA sid : sid \in DOMAIN cl)
             roster == [i \in DOMAIN live |-> getUserDisplay(cl[live[i]].user)]
         IN <<Ev("channel_roster", rm[channelId], channelId, 0, "", roster, live)>>

\* the directory refreshes so far: how many requests were sent, which are
\* unanswered, and which request's answer installed the snapshot (0: none)
NoRefresh == [issued |-> 0, inflight |-> {}, installed |-> 0]

(* ------------------------------- Init ---------------------------------- *)

Init ==
    /\ CHANNELS = <<>>
    /\ clients = EmptyMap
    /\ channelMembers = EmptyMap
    /\ rooms = [c \in ChannelIds |-> {}]
    /\ phase = [s \in Sockets |-> "idle"]
    /\ connected = [s \in Sockets |-> FALSE]
    /\ now = 0
    /\ events = <<>>
    /\ last = [op |-> "init", sid |-> 0, arg |-> ""]
    /\ accepted = [s \in Sockets |-> <<>>]
    /\ handled = [s \in Sockets |-> [sec |-> -1, n |-> 0]]
    /\ refresh = NoRefresh
    /\ naming = [s \in Sockets |-> {}]

(* --------------------- loadChannelsFromBackend ------------------------- *)

\* GET /radio/channels answered with an array
LoadChannelsArray(list) ==
    /\ CHANNELS' = list
    /\ events' = <<>>
    /\ last' = [op |-> "loadChannels", sid |-> 0, arg |-> "array"]
    /\ UNCHANGED <<refresh, naming>>
    /\ UNCHANGED <<clients, channelMembers, rooms, phase, connected, now,
                   accepted, handled>>

\* GET /radio/channels answered 2xx with a body that is not an array
LoadChannelsNotArray ==
    /\ CHANNELS' = <<>>
    /\ events' = <<>>
    /\ last' = [op |-> "loadChannels", sid |-> 0, arg |-> "notArray"]
    /\ UNCHANGED <<refresh, naming>>
    /\ UNCHANGED <<clients, channelMembers, rooms, phase, connected, now,
                   accepted, handled>>

\* the request throws (network error, non-2xx): the catch only logs
LoadChannelsError ==
    /\ events' = <<>>
    /\ last' = [op |-> "loadChannels", sid |-> 0, arg |-> "error"]
    /\ UNCHANGED <<refresh, naming>>
    /\ UNCHANGED <<CHANNELS, clients, channelMembers, rooms, phase, connected,
                   now, accepted, handled>>

\* the refresh timer fires: loadChannelsFromBackend sends GET /radio/channels
\* and suspends at the await, whether or not earlier requests are answered
RefreshRequest ==
    /\ refresh.issued < MaxFetches
    /\ refresh' = [refresh EXCEPT !.issued = @ + 1,
                                   !.inflight = @ \cup {refresh.issued + 1}]
    /\ events' = <<>>
    /\ last' = [op |-> "refreshRequest", sid |-> 0, arg |-> ""]
    /\ UNCHANGED <<CHANNELS, clients, channelMembers, rooms, phase, connected,
                   now, accepted, handled, naming>>

\* request r is answered with an array: CHANNELS = res.data
RefreshAnswerArray(r, list) ==
    /\ r \in refresh.inflight
    /\ CHANNELS' = list
    /\ refresh' = [refresh EXCEPT !.inflight = @ \ {r}, !.installed = r]
    /\ events' = <<>>
    /\ last' = [op |-> "loadChannels", sid |-> 0, arg |-> "array"]
    /\ UNCHANGED <<clients, channelMembers, rooms, phase, connected, now,
                   accepted, handled, naming>>

\* request r is answered 2xx with a body that is not an array: CHANNELS = []
RefreshAnswerNotArray(r) ==
    /\ r \in refresh.inflight
    /\ CHANNELS' = <<>>
    /\ refresh' = [refresh EXCEPT !.inflight = @ \ {r}, !.installed = r]
    /\ events' = <<>>
    /\ last' = [op |-> "loadChannels", sid |-> 0, arg |-> "notArray"]
    /\ UNCHANGED <<clients, channelMembers, rooms, phase, connected, now,
                   accepted, handled, naming>>

\* request r throws: the catch only logs
RefreshAnswerError(r) ==
    /\ r \in refresh.inflight
    /\ refresh' = [refresh EXCEPT !.inflight = @ \ {r}]
    /\ events' = <<>>
    /\ last' = [op |-> "loadChannels", sid |-> 0, arg |-> "error"]
    /\ UNCHANGED <<CHANNELS, clients, channelMembers, rooms, phase, connected,
                   now, accepted, handled, naming>>

(* ------------------- io.on("connection") / validateUser ---------------- *)

\* a connection handler that skips the `if (!user)` branch
AuthDone_NoCheck(s, ok, user) ==
    /\ clients' = MapPut(clients, s, NewSession(user))
    /\ events' = <<EmitSelf(s, "auth_success", ""), EmitSelf(s, "channels", "")>>
    /\ phase' = [phase EXCEPT ![s] = "registered"]
    /\ UNCHANGED connected

\* the connection handler after `await validateUser(...)` resolved with a
\* user document (ok) or with null
AuthDone(s, ok, user) ==
    IF ~ok
    THEN /\ events' = <<EmitSelf(s, "auth_failed", "")>>
         /\ phase' = [phase EXCEPT ![s] = "rejected"]
         /\ connected' = [connected EXCEPT ![s] = FALSE]
         /\ UNCHANGED clients
    ELSE /\ clients' = MapPut(clients, s, NewSession(user))
         /\ events' = <<EmitSelf(s, "auth_success", ""), EmitSelf(s, "channels", "")>>
         /\ phase' = [phase EXCEPT ![s] = "registered"]
         /\ UNCHANGED connected

\* const { token, userId } = auth || {}: which of the two are truthy
Credentials(hasToken, hasUserId) ==
    IF hasToken
    THEN IF hasUserId THEN "token+userId" ELSE "token"
    ELSE IF hasUserId THEN "userId" ELSE "none"

\* a client connects; validateUser starts with the handshake's credentials
Connect(s, hasToken, hasUserId) ==
    /\ phase[s] = "idle"
    /\ last' = [op |-> "connection", sid |-> s,
                arg |-> Credentials(hasToken, hasUserId)]
    /\ UNCHANGED <<refresh, naming>>
    /\ IF hasToken
       THEN /\ phase' = [phase EXCEPT ![s] =
                            IF hasUserId THEN "tokenLookupThenId" ELSE "tokenLookup"]
            /\ connected' = [connected EXCEPT ![s] = TRUE]
            /\ events' = <<>>
            /\ UNCHANGED clients
       ELSE IF hasUserId
       THEN /\ phase' = [phase EXCEPT ![s] = "idLookup"]
            /\ connected' = [connected EXCEPT ![s] = TRUE]
            /\ events' = <<>>
            /\ UNCHANGED clients
       ELSE AuthDone(s, FALSE, FireUser)
    /\ UNCHANGED <<CHANNELS, channelMembers, rooms, now, accepted, handled>>

\* GET /users/validate answered { user } with a truthy user
TokenLookupOk(s, user) ==
    /\ phase[s] \in {"tokenLookup", "tokenLookupThenId"}
    /\ last' = [op |-> "validated", sid |-> s, arg |-> "token"]
    /\ UNCHANGED <<refresh, naming>>
    /\ AuthDone(s, TRUE, user)
    /\ UNCHANGED <<CHANNELS, channelMembers, rooms, now, accepted, handled>>

\* GET /users/validate threw, or answered without a user
TokenLookupFail(s) ==
    /\ phase[s] \in {"tokenLookup", "tokenLookupThenId"}
    /\ last' = [op |-> "validated", sid |-> s, arg |-> "tokenFailed"]
    /\ UNCHANGED <<refresh, naming>>
    /\ IF phase[s] = "tokenLookupThenId"
       THEN /\ phase' = [phase EXCEPT ![s] = "idLookup"]
            /\ events' = <<>>
            /\ UNCHANGED <<clients, connected>>
       ELSE AuthDone(s, FALSE, FireUser)
    /\ UNCHANGED <<CHANNELS, channelMembers, rooms, now, accepted, handled>>

\* GET /users/:id answered 2xx with a truthy body
IdLookupOk(s, user) ==
    /\ phase[s] = "idLookup"
    /\ last' = [op |-> "validated", sid |-> s, arg |-> "id"]
    /\ UNCHANGED <<refresh, naming>>
    /\ AuthDone(s, TRUE, user)
    /\ UNCHANGED <<CHANNELS, channelMembers, rooms, now, accepted, handled>>

\* GET /users/:id threw (network error, non-2xx) or answered a falsy body
IdLookupFail(s) ==
    /\ phase[s] = "idLookup"
    /\ last' = [op |-> "validated", sid |-> s, arg |-> "idFailed"]
    /\ UNCHANGED <<refresh, naming>>
    /\ AuthDone(s, FALSE, FireUser)
    /\ UNCHANGED <<CHANNELS, channelMembers, rooms, now, accepted, handled>>

\* the backend accepts the request of the pending lookup and never answers:
\* axios.get is called without a timeout, so the await never settles
LookupHangs(s) ==
    /\ phase[s] \in {"tokenLookup", "tokenLookupThenId", "idLookup"}
    /\ phase' = [phase EXCEPT ![s] = "hung"]
    /\ events' = <<>>
    /\ last' = [op |-> "hang", sid |-> s, arg |-> ""]
    /\ UNCHANGED <<refresh, naming>>
    /\ UNCHANGED <<CHANNELS, clients, channelMembers, rooms, connected, now,
                   accepted, handled>>

\* the socket's handlers are registered
Registered(s) == phase[s] = "registered"

\* a server that handles no event while any validation is in flight
Receives_Blocking(s) ==
    /\ Registered(s) /\ connected[s]
    /\ \A o \in Sockets :
          phase[o] \notin {"tokenLookup", "tokenLookupThenId", "idLookup"}

\* an event of an open connection reaches the handlers registered for it
Receives(s) == Registered(s) /\ connected[s]

\* the events a client can send once connected
ClientEvents ==
    {"joinChannel", "monitorChannel", "unmonitorChannel", "ptt_start",
     "ptt_stop", "signal", "getChannels"}

\* the channel ids an event of that name can carry ("": no channel id)
EventArgs(op) ==
    IF op \in {"joinChannel", "monitorChannel", "unmonitorChannel"}
    THEN ChannelIds
    ELSE {""}

\* an event arrives on an open connection whose validation is in flight: the
\* socket.on(...) calls come after the await, so the event has no listener
Unheard(s, op, arg) ==
    /\ connected[s]
    /\ phase[s] \in {"tokenLookup", "tokenLookupThenId", "idLookup", "hung"}
    /\ events' = <<>>
    /\ last' = [op |-> op, sid |-> s, arg |-> arg]
    /\ UNCHANGED <<refresh, naming>>
    /\ UNCHANGED <<CHANNELS, clients, channelMembers, rooms, phase, connected,
                   now, accepted, handled>>

(* ----------------------------- joinChannel ----------------------------- *)

\* joinChannel without prevSet.delete(socket.id)
JoinLeaveMembers_NoDelete(cm, prev, s) == cm

\* "Leave previous primary channel": the member sets after it
JoinLeaveMembers(cm, prev, s) ==
    IF prev # NoChannel
    THEN [ensureChannelSet(cm, prev) EXCEPT ![prev] = SetDelete(@, s)]
    ELSE cm

\* "Leave previous primary channel": the rooms after socket.leave
JoinLeaveRooms(rm, prev, s) ==
    IF prev # NoChannel THEN [rm EXCEPT ![prev] = @ \ {s}] ELSE rm

\* a joinChannel without set.add(socket.id)
JoinAddMembers_Skip(cm, channelId, s) == ensureChannelSet(cm, channelId)

\* the member sets after set.add(socket.id) on the joined channel
JoinAddMembers(cm, channelId, s) ==
    [ensureChannelSet(cm, channelId) EXCEPT ![channelId] = SetAdd(@, s)]

\* a joinChannel without socket.join(channelId)
SocketJoin_Never(rm, channelId, s) == rm

\* socket.join(channelId)
SocketJoin(rm, channelId, s) == [rm EXCEPT ![channelId] = @ \cup {s}]

\* a denial that first clears the primary channel of the session
JoinDeniedClients_ClearsPrimary(cl, s) ==
    [cl EXCEPT ![s].currentChannel = NoChannel]

\* the registry when the handler returns from the denial: nothing assigned
JoinDeniedClients(cl, s) == cl

JoinChannel(s, channelId) ==
    /\ Receives(s)
    /\ last' = [op |-> "joinChannel", sid |-> s, arg |-> channelId]
    /\ UNCHANGED <<refresh, naming>>
    /\ UNCHANGED <<CHANNELS, phase, connected, now, accepted, handled>>
    /\ IF s \notin DOMAIN clients
       THEN /\ events' = <<>>
            /\ UNCHANGED <<clients, channelMembers, rooms>>
       ELSE IF ~HasChannel(channelId)
       THEN /\ events' = <<EmitSelf(s, "errorMsg", channelId)>>
            /\ UNCHANGED <<clients, channelMembers, rooms>>
       ELSE IF ~userCanJoinChannel(clients[s].user, getChannelById(channelId))
       THEN /\ events' = <<EmitSelf(s, "denied", channelId)>>
            /\ clients' = JoinDeniedClients(clients, s)
            /\ UNCHANGED <<channelMembers, rooms>>
       ELSE LET prev == clients[s].currentChannel
                cm1 == JoinLeaveMembers(channelMembers, prev, s)
                rm1 == JoinLeaveRooms(rooms, prev, s)
                ev1 == IF prev # NoChannel
                       THEN broadcastRoster(cm1, clients, rm1, prev)
                       ELSE <<>>
                cl2 == [clients EXCEPT ![s].currentChannel = channelId]
                cm2 == JoinAddMembers(cm1, channelId, s)
                rm2 == SocketJoin(rm1, channelId, s)
            IN /\ clients' = cl2
               /\ channelMembers' = cm2
               /\ rooms' = rm2
               /\ events' = ev1 \o <<EmitSelf(s, "joined", channelId)>>
                                \o broadcastRoster(cm2, cl2, rm2, channelId)

(* --------------------- monitorChannel / unmonitorChannel --------------- *)

\* a monitorChannel that also enters the session in the primary member set
MonitorChannel_AsMember(s, channelId) ==
    /\ Receives(s)
    /\ last' = [op |-> "monitorChannel", sid |-> s, arg |-> channelId]
    /\ UNCHANGED <<CHANNELS, phase, connected, now, accepted, handled, refresh,
                   naming>>
    /\ IF s \notin DOMAIN clients
       THEN /\ events' = <<>>
            /\ UNCHANGED <<clients, rooms, channelMembers>>
       ELSE IF ~userIsStaff(clients[s].user)
       THEN /\ events' = <<EmitSelf(s, "denied", channelId)>>
            /\ UNCHANGED <<clients, rooms, channelMembers>>
       ELSE IF ~HasChannel(channelId) \/ channelId \in clients[s].monitoring
       THEN /\ events' = <<>>
            /\ UNCHANGED <<clients, rooms, channelMembers>>
       ELSE /\ clients' = [clients EXCEPT ![s].monitoring = @ \cup {channelId}]
            /\ rooms' = SocketJoin(rooms, channelId, s)
            /\ channelMembers' = JoinAddMembers(channelMembers, channelId, s)
            /\ events' = <<EmitSelf(s, "monitoring", channelId)>>

\* a monitorChannel without the staff check
MonitorChannel_NoStaffCheck(s, channelId) ==
    /\ Receives(s)
    /\ last' = [op |-> "monitorChannel", sid |-> s, arg |-> channelId]
    /\ UNCHANGED <<CHANNELS, channelMembers, phase, connected, now, accepted,
                   handled, refresh, naming>>
    /\ IF s \notin DOMAIN clients
       THEN /\ events' = <<>>
            /\ UNCHANGED <<clients, rooms>>
       ELSE IF ~HasChannel(channelId) \/ channelId \in clients[s].monitoring
       THEN /\ events' = <<>>
            /\ UNCHANGED <<clients, rooms>>
       ELSE /\ clients' = [clients EXCEPT ![s].monitoring = @ \cup {channelId}]
            /\ rooms' = SocketJoin(rooms, channelId, s)
            /\ events' = <<EmitSelf(s, "monitoring", channelId)>>

MonitorChannel(s, channelId) ==
    /\ Receives(s)
    /\ last' = [op |-> "monitorChannel", sid |-> s, arg |-> channelId]
    /\ UNCHANGED <<refresh, naming>>
    /\ UNCHANGED <<CHANNELS, channelMembers, phase, connected, now, accepted,
                   handled>>
    /\ IF s \notin DOMAIN clients
       THEN /\ events' = <<>>
            /\ UNCHANGED <<clients, rooms>>
       ELSE IF ~userIsStaff(clients[s].user)
       THEN /\ events' = <<EmitSelf(s, "denied", channelId)>>
            /\ UNCHANGED <<clients, rooms>>
       ELSE IF ~HasChannel(channelId) \/ channelId \in clients[s].monitoring
       THEN /\ events' = <<>>
            /\ UNCHANGED <<clients, rooms>>
       ELSE /\ clients' = [clients EXCEPT ![s].monitoring = @ \cup {channelId}]
            /\ rooms' = SocketJoin(rooms, channelId, s)
            /\ events' = <<EmitSelf(s, "monitoring", channelId)>>

\* unmonitorChannel without socket.leave
UnmonitorLeaveRooms_NoLeave(rm, cur, channelId, s) == rm

\* the rooms after unmonitorChannel's "Only leave the room if it's not their
\* primary"
UnmonitorLeaveRooms(rm, cur, channelId, s) ==
    IF cur # channelId THEN [rm EXCEPT ![channelId] = @ \ {s}] ELSE rm

UnmonitorChannel(s, channelId) ==
    /\ Receives(s)
    /\ last' = [op |-> "unmonitorChannel", sid |-> s, arg |-> channelId]
    /\ UNCHANGED <<refresh, naming>>
    /\ UNCHANGED <<CHANNELS, channelMembers, phase, connected, now, accepted,
                   handled>>
    /\ IF \/ s \notin DOMAIN clients
          \/ ~userIsStaff(clients[s].user)
          \/ channelId \notin clients[s].monitoring
       THEN /\ events' = <<>>
            /\ UNCHANGED <<clients, rooms>>
       ELSE /\ clients' = [clients EXCEPT ![s].monitoring = @ \ {channelId}]
            /\ rooms' = UnmonitorLeaveRooms(rooms, clients[s].currentChannel,
                                            channelId, s)
            /\ events' = <<EmitSelf(s, "monitoring", channelId)>>

(* ------------------------- ptt_start / ptt_stop ------------------------ *)

\* a guard that only asks for a session
NoPrimary_SessionOnly(cl, s) == s \notin DOMAIN cl

\* if (!state || !state.currentChannel) return;
NoPrimary(cl, s) == s \notin DOMAIN cl \/ cl[s].currentChannel = NoChannel

\* a filter that keeps a start that is exactly one window old
PttFilter_Inclusive(starts, t) ==
    SelectSeq(starts, LAMBDA x : t - x <= PTT_WINDOW_MS)

\* pttStarts.filter((t) => now - t < 10_000)
PttFilter(starts, t) == SelectSeq(starts, LAMBDA x : t - x < PTT_WINDOW_MS)

\* pttStarts.length >= MAX_PTT_STARTS_PER_10S
PttLimitReached(starts) == Len(starts) >= MAX_PTT_STARTS_PER_10S

\* a denial that records the attempt
PttDeniedStarts_Record(kept, t) == Append(kept, t)

\* state.stats.pttStarts when the handler returns from the denial: the
\* filtered list, nothing pushed
PttDeniedStarts(kept, t) == kept

\* a relay that also reaches the rooms the sender monitors
RelayTo_Monitored(rm, state) ==
    rm[state.currentChannel] \cup UNION {rm[c] : c \in state.monitoring}

\* a relay that first looks the channel up in the directory snapshot
RelayTo_KnownOnly(rm, state) ==
    IF HasChannel(state.currentChannel) THEN rm[state.currentChannel] ELSE {}

\* the connections io.to(state.currentChannel).emit(...) reaches (nobody is
\* in a room that was never joined)
RelayTo(rm, state) ==
    IF state.currentChannel \in DOMAIN rm THEN rm[state.currentChannel] ELSE {}

PttStart(s) ==
    /\ Receives(s)
    /\ last' = [op |-> "ptt_start", sid |-> s, arg |-> ""]
    /\ UNCHANGED <<refresh, naming>>
    /\ UNCHANGED <<CHANNELS, channelMembers, rooms, phase, connected, now,
                   handled>>
    /\ IF NoPrimary(clients, s)
       THEN /\ events' = <<>>
            /\ UNCHANGED <<clients, accepted>>
       ELSE LET state == clients[s]
                kept == PttFilter(state.pttStarts, now)
            IN IF PttLimitReached(kept)
               THEN /\ clients' = [clients EXCEPT ![s].pttStarts =
                                                    PttDeniedStarts(kept, now)]
                    /\ events' = <<EmitSelf(s, "denied", "")>>
                    /\ UNCHANGED accepted
               ELSE /\ clients' = [clients EXCEPT ![s].pttStarts = Append(kept, now)]
                    /\ events' = <<Ev("ptt_state", RelayTo(rooms, state),
                                      state.currentChannel, s, "start", <<>>, <<>>)>>
                    /\ accepted' = [accepted EXCEPT ![s] = Append(@, now)]

\* a ptt_stop that is refused while the start limit is reached
PttStop_RateLimited(s) ==
    /\ Receives(s)
    /\ last' = [op |-> "ptt_stop", sid |-> s, arg |-> ""]
    /\ UNCHANGED <<CHANNELS, clients, channelMembers, rooms, phase, connected,
                   now, accepted, handled, refresh, naming>>
    /\ IF NoPrimary(clients, s)
       THEN events' = <<>>
       ELSE IF PttLimitReached(PttFilter(clients[s].pttStarts, now))
       THEN events' = <<EmitSelf(s, "denied", "")>>
       ELSE events' = <<Ev("ptt_state", RelayTo(rooms, clients[s]),
                           clients[s].currentChannel, s, "stop", <<>>, <<>>)>>

PttStop(s) ==
    /\ Receives(s)
    /\ last' = [op |-> "ptt_stop", sid |-> s, arg |-> ""]
    /\ UNCHANGED <<refresh, naming>>
    /\ UNCHANGED <<CHANNELS, clients, channelMembers, rooms, phase, connected,
                   now, accepted, handled>>
    /\ IF NoPrimary(clients, s)
       THEN events' = <<>>
       ELSE events' = <<Ev("ptt_state", RelayTo(rooms, clients[s]),
                           clients[s].currentChannel, s, "stop", <<>>, <<>>)>>

(* ------------------------------- signal -------------------------------- *)

\* Math.floor(Date.now() / 1000)
NowSec(t) == t \div 1000

\* cps[nowSec] = (cps[nowSec] || 0) + 1
ChunkCount(cps, sec) == MapPut(cps, sec, CountAt(cps, sec) + 1)

\* a clean-up that deletes nothing
ChunkPrune_Never(cps, sec) == cps

\* for (const sec in cps) if (Number(sec) < nowSec - 5) delete cps[sec]
ChunkPrune(cps, sec) ==
    [x \in {k \in DOMAIN cps : ~(k < sec - CHUNK_KEEP_SECONDS)} |-> cps[x]]

\* a limit test that already drops the chunk that reaches the ceiling
ChunkOverLimit_Inclusive(cps, sec) == cps[sec] >= MAX_CHUNKS_PER_SECOND

\* cps[nowSec] > MAX_CHUNKS_PER_SECOND
ChunkOverLimit(cps, sec) == cps[sec] > MAX_CHUNKS_PER_SECOND

Signal(s) ==
    /\ Receives(s)
    /\ last' = [op |-> "signal", sid |-> s, arg |-> ""]
    /\ UNCHANGED <<refresh, naming>>
    /\ UNCHANGED <<CHANNELS, channelMembers, rooms, phase, connected, now,
                   accepted>>
    /\ IF NoPrimary(clients, s)
       THEN /\ events' = <<>>
            /\ UNCHANGED <<clients, handled>>
       ELSE LET state == clients[s]
                nowSec == NowSec(now)
                cps == ChunkPrune(ChunkCount(state.chunksPerSecond, nowSec), nowSec)
            IN /\ clients' = [clients EXCEPT ![s].chunksPerSecond = cps]
               /\ handled' = [handled EXCEPT ![s] =
                                 [sec |-> nowSec,
                                  n |-> IF @.sec = nowSec THEN @.n + 1 ELSE 1]]
               /\ IF ChunkOverLimit(cps, nowSec)
                  THEN events' = <<>>
                  ELSE events' = <<Ev("signal", RelayTo(rooms, state),
                                      state.currentChannel, s, "", <<>>, <<>>)>>

(* ------------------------------ getChannels ---------------------------- *)

GetChannels(s) ==
    /\ Receives(s)
    /\ last' = [op |-> "getChannels", sid |-> s, arg |-> ""]
    /\ UNCHANGED <<refresh, naming>>
    /\ events' = <<EmitSelf(s, "channels", "")>>
    /\ UNCHANGED <<CHANNELS, clients, channelMembers, rooms, phase, connected,
                   now, accepted, handled>>

(* ------------------------------ disconnect ----------------------------- *)

\* socket.io empties the socket's rooms before it emits "disconnect"
LeaveAll(rm, s) == [c \in DOMAIN rm |-> rm[c] \ {s}]

\* a disconnect handler without set.delete(socket.id)
DisconnectMembers_NoDelete(cm, cur, s) == ensureChannelSet(cm, cur)

\* the member sets after the disconnect handler's set.delete(socket.id)
DisconnectMembers(cm, cur, s) ==
    IF cur # NoChannel
    THEN [ensureChannelSet(cm, cur) EXCEPT ![cur] = SetDelete(@, s)]
    ELSE cm

\* the registry after the disconnect handler
DisconnectClients(cl, s) == MapDelete(cl, s)

\* the transport of an open connection closes; the "disconnect" handler runs
\* if the connection handler has registered it
Disconnect(s) ==
    /\ connected[s]
    /\ connected' = [connected EXCEPT ![s] = FALSE]
    /\ rooms' = LeaveAll(rooms, s)
    /\ last' = [op |-> "disconnect", sid |-> s, arg |-> ""]
    /\ UNCHANGED <<refresh, naming>>
    /\ UNCHANGED <<CHANNELS, now, accepted, handled>>
    /\ IF Registered(s) /\ s \in DOMAIN clients
       THEN LET cur == clients[s].currentChannel
                cm1 == DisconnectMembers(channelMembers, cur, s)
            IN /\ channelMembers' = cm1
               /\ events' = IF cur # NoChannel
                            THEN broadcastRoster(cm1, clients, rooms', cur)
                            ELSE <<>>
               /\ clients' = DisconnectClients(clients, s)
               /\ phase' = [phase EXCEPT ![s] = "closed"]
       ELSE /\ events' = <<>>
            /\ UNCHANGED <<clients, channelMembers, phase>>

(* -------------------------------- clock -------------------------------- *)

\* Date.now() advances by d milliseconds between two events
Tick(d) ==
    /\ now' = now + d
    /\ events' = <<>>
    /\ last' = [op |-> "tick", sid |-> 0, arg |-> ""]
    /\ UNCHANGED <<refresh, naming>>
    /\ UNCHANGED <<CHANNELS, clients, channelMembers, rooms, phase, connected,
                   accepted, handled>>

(* ------------- the minimal radio server (src/unnamed/part_006) --------- *)

\* the elements of a set in some order
RECURSIVE SeqOf(_)
SeqOf(S) ==
    IF S = {} THEN <<>>
    ELSE LET x == CHOOSE y \in S : TRUE IN <<x>> \o SeqOf(S \ {x})

\* the user object users.set stores for a validated user document
MiniUser(user) == [id |-> user.id, department |-> user.department]

\* the message updateRoster(chId) emits: the roster of ch.users, to the room
\* chId; mapping a member that users does not hold throws before the emit
updateRoster(cm, cl, rm, chId) ==
    IF \E i \in DOMAIN cm[chId] : cm[chId][i] \notin DOMAIN cl
    THEN <<>>
    ELSE <<Ev("channel_roster", rm[chId], chId, 0, "",
              [i \in DOMAIN cm[chId] |-> cl[cm[chId][i]]], cm[chId])>>

\* the channels whose users set holds the socket
MiniChannelsOf(cm, s) == {c \in DOMAIN cm : s \in Range(cm[c])}

\* channels after leaveAll(socket): ch.users.delete(socket.id) in every
\* channel that holds it; the socket.io rooms are not touched
leaveAll(cm, s) ==
    [c \in DOMAIN cm |-> SetDelete(cm[c], s)]

\* the rosters leaveAll(socket) emits, one per channel it deleted from
leaveAllRosters(cm, cl, rm, s) ==
    LET left == SeqOf(MiniChannelsOf(cm, s))
        after == leaveAll(cm, s)
        RECURSIVE Each(_)
        Each(i) ==
            IF i > Len(left) THEN <<>>
            ELSE updateRoster(after, cl, rm, left[i]) \o Each(i + 1)
    IN Each(1)

\* the io.use middleware and the connection handler: validateUser resolved
\* with a user document (ok) or with null
MiniConnect(s, ok, user) ==
    /\ phase[s] = "idle"
    /\ last' = [op |-> "connection", sid |-> s, arg |-> ""]
    /\ IF ok
       THEN /\ clients' = MapPut(clients, s, MiniUser(user))
            /\ phase' = [phase EXCEPT ![s] = "registered"]
            /\ connected' = [connected EXCEPT ![s] = TRUE]
            /\ events' = <<EmitSelf(s, "auth_success", "")>>
       ELSE /\ phase' = [phase EXCEPT ![s] = "rejected"]
            /\ events' = <<>>
            /\ UNCHANGED <<clients, connected>>
    /\ UNCHANGED <<CHANNELS, channelMembers, rooms, now, accepted, handled,
                   refresh, naming>>

\* joinChannel(socket, chId) up to its await: leaveAll, channels.set,
\* ch.users.add, updateRoster, socket.join, then fetchChannelName is awaited
MiniJoinChannel(s, chId) ==
    /\ Receives(s)
    /\ chId \notin naming[s]
    /\ last' = [op |-> "joinChannel", sid |-> s, arg |-> chId]
    /\ LET cm1 == leaveAll(channelMembers, s)
           ev1 == leaveAllRosters(channelMembers, clients, rooms, s)
           cm2 == JoinAddMembers(cm1, chId, s)
       IN /\ channelMembers' = cm2
          /\ events' = ev1 \o updateRoster(cm2, clients, rooms, chId)
          /\ rooms' = SocketJoin(rooms, chId, s)
          /\ naming' = [naming EXCEPT ![s] = @ \cup {chId}]
    /\ UNCHANGED <<CHANNELS, clients, phase, connected, now, accepted, handled,
                   refresh>>

\* fetchChannelName resolved: socket.emit("joined", ...)
MiniJoined(s, chId) ==
    /\ chId \in naming[s]
    /\ naming' = [naming EXCEPT ![s] = @ \ {chId}]
    /\ last' = [op |-> "joined", sid |-> s, arg |-> chId]
    /\ events' = IF connected[s] THEN <<EmitSelf(s, "joined", chId)>> ELSE <<>>
    /\ UNCHANGED <<CHANNELS, clients, channelMembers, rooms, phase, connected,
                   now, accepted, handled, refresh>>

\* socket.rooms.forEach(room => socket.to(room).emit(type, ...)): one message
\* per room the socket is in, to everyone else in that room
MiniRelay(rm, s, type, st) ==
    LET in == SeqOf({c \in DOMAIN rm : s \in rm[c]})
    IN [i \in DOMAIN in |-> Ev(type, rm[in[i]] \ {s}, in[i], s, st, <<>>, <<>>)]

\* relayAudio(socket, chunk)
MiniRelayAudio(s) ==
    /\ Receives(s)
    /\ last' = [op |-> "signal", sid |-> s, arg |-> ""]
    /\ events' = MiniRelay(rooms, s, "signal", "")
    /\ UNCHANGED <<CHANNELS, clients, channelMembers, rooms, phase, connected,
                   now, accepted, handled, refresh, naming>>

\* broadcastPTT(socket, state)
MiniBroadcastPTT(s, st) ==
    /\ Receives(s)
    /\ last' = [op |-> "ptt_" \o st, sid |-> s, arg |-> ""]
    /\ events' = MiniRelay(rooms, s, "ptt_state", st)
    /\ UNCHANGED <<CHANNELS, clients, channelMembers, rooms, phase, connected,
                   now, accepted, handled, refresh, naming>>

\* the "disconnect" handler: leaveAll(socket), users.delete(socket.id)
MiniDisconnect(s) ==
    /\ Receives(s)
    /\ connected' = [connected EXCEPT ![s] = FALSE]
    /\ phase' = [phase EXCEPT ![s] = "closed"]
    /\ rooms' = LeaveAll(rooms, s)
    /\ last' = [op |-> "disconnect", sid |-> s, arg |-> ""]
    /\ channelMembers' = leaveAll(channelMembers, s)
    /\ events' = leaveAllRosters(channelMembers, clients, rooms', s)
    /\ clients' = MapDelete(clients, s)
    /\ UNCHANGED <<CHANNELS, now, accepted, handled, refresh, naming>>

(* ---------------------------- specifications --------------------------- *)

Bool == {TRUE, FALSE}

\* the events a client sends that change membership or monitoring
Membership ==
    \/ \E s \in Sockets, c \in ChannelIds : JoinChannel(s, c)
    \/ \E s \in Sockets, c \in ChannelIds : MonitorChannel(s, c)
    \/ \E s \in Sockets, c \in ChannelIds : UnmonitorChannel(s, c)
    \/ \E s \in Sockets : Disconnect(s)

\* a connection whose handshake carries a user id only
ConnectById ==
    \/ \E s \in Sockets : Connect(s, FALSE, TRUE)
    \/ \E s \in Sockets, user \in Profiles : IdLookupOk(s, user)
    \/ \E s \in Sockets : IdLookupFail(s)

\* channels, membership and monitoring while the directory is refreshed
Next ==
    \/ \E list \in Directories : LoadChannelsArray(list)
    \/ ConnectById
    \/ Membership
    \/ \E s \in Sockets : PttStop(s)
    \/ \E s \in Sockets : GetChannels(s)

Spec == Init /\ [][Next]_vars

FullDirectory ==
    <<ChanDef("A", "public", ""), ChanDef("B", "department", "fire")>>

\* relay of PTT and audio among members and monitors; each client sends at
\* most one start and one chunk
NextRelay ==
    \/ CHANNELS = <<>> /\ LoadChannelsArray(FullDirectory)
    \/ ConnectById
    \/ Membership
    \/ \E s \in Sockets : accepted[s] = <<>> /\ PttStart(s)
    \/ \E s \in Sockets : PttStop(s)
    \/ \E s \in Sockets : handled[s].n = 0 /\ Signal(s)

SpecRelay == Init /\ [][NextRelay]_vars

\* every handshake and every outcome of the two lookups, with disconnects
NextAuth ==
    \/ CHANNELS = <<>> /\ LoadChannelsArray(FullDirectory)
    \/ \E s \in Sockets, hasToken \in Bool, hasUserId \in Bool :
          Connect(s, hasToken, hasUserId)
    \/ \E s \in Sockets, user \in LookupBodies : TokenLookupOk(s, user)
    \/ \E s \in Sockets : TokenLookupFail(s)
    \/ \E s \in Sockets, user \in LookupBodies : IdLookupOk(s, user)
    \/ \E s \in Sockets : IdLookupFail(s)
    \/ \E s \in Sockets : JoinChannel(s, "A")
    \/ \E s \in Sockets : Disconnect(s)

SpecAuth == Init /\ [][NextAuth]_vars

\* the backend answers a pending lookup
LookupAnswers ==
    \/ \E s \in Sockets, user \in LookupBodies : TokenLookupOk(s, user)
    \/ \E s \in Sockets : TokenLookupFail(s)
    \/ \E s \in Sockets, user \in LookupBodies : IdLookupOk(s, user)
    \/ \E s \in Sockets : IdLookupFail(s)

\* handshakes against a backend that may leave a lookup unanswered
NextAuthLive ==
    \/ CHANNELS = <<>> /\ LoadChannelsArray(FullDirectory)
    \/ \E s \in Sockets, hasToken \in Bool, hasUserId \in Bool :
          Connect(s, hasToken, hasUserId)
    \/ LookupAnswers
    \/ \E s \in Sockets : LookupHangs(s)
    \/ \E s \in Sockets : JoinChannel(s, "A")
    \/ \E s \in Sockets : Disconnect(s)

\* an answer that is on its way is delivered and its continuation runs; a
\* lookup that hangs has no answer on its way
SpecAuthLive == Init /\ [][NextAuthLive]_vars /\ WF_vars(LookupAnswers)

\* client events on connections whose validation is pending, next to the
\* events of admitted sessions; each session sends at most one start and one
\* chunk
NextPending ==
    \/ CHANNELS = <<>> /\ LoadChannelsArray(FullDirectory)
    \/ \E s \in Sockets : Connect(s, TRUE, FALSE)
    \/ \E s \in Sockets, user \in Profiles : TokenLookupOk(s, user)
    \/ \E s \in Sockets : TokenLookupFail(s)
    \/ \E s \in Sockets, op \in ClientEvents :
          \E arg \in EventArgs(op) : Unheard(s, op, arg)
    \/ \E s \in Sockets, c \in ChannelIds : JoinChannel(s, c)
    \/ \E s \in Sockets, c \in ChannelIds : MonitorChannel(s, c)
    \/ \E s \in Sockets, c \in ChannelIds : UnmonitorChannel(s, c)
    \/ \E s \in Sockets : accepted[s] = <<>> /\ PttStart(s)
    \/ \E s \in Sockets : PttStop(s)
    \/ \E s \in Sockets : handled[s].n = 0 /\ Signal(s)
    \/ \E s \in Sockets : GetChannels(s)

SpecPending == Init /\ [][NextPending]_vars

\* the session that sends at the highest rate the bounds allow; the others
\* send at most one start, and only listen under SpecChunk
HeavySockets == {1}

\* the clock steps of SpecRate: half the PTT window
RateStep == PTT_WINDOW_MS \div 2

\* ptt_stop at every fill of the start window and of the chunk counter: the
\* heavy session sends starts until they are denied and chunks up to the
\* ceiling, the others one start
NextStop ==
    \/ CHANNELS = <<>> /\ LoadChannelsArray(FullDirectory)
    \/ \E s \in Sockets : Connect(s, FALSE, TRUE)
    \/ \E s \in Sockets : IdLookupOk(s, FireUser)
    \/ \E s \in Sockets : JoinChannel(s, "A")
    \/ \E s \in Sockets : (s \in HeavySockets \/ accepted[s] = <<>>) /\ PttStart(s)
    \/ \E s \in Sockets : PttStop(s)
    \/ \E s \in HeavySockets :
          handled[s].n < MAX_CHUNKS_PER_SECOND /\ Signal(s)

SpecStop == Init /\ [][NextStop]_vars

\* one session whose clock runs second by second: it presses PTT at whole
\* windows only and sends at most one chunk per second
NextBounded ==
    \/ CHANNELS = <<>> /\ LoadChannelsArray(FullDirectory)
    \/ \E s \in HeavySockets : Connect(s, FALSE, TRUE)
    \/ \E s \in HeavySockets : IdLookupOk(s, FireUser)
    \/ \E s \in HeavySockets : JoinChannel(s, "A")
    \/ \E s \in HeavySockets : now % PTT_WINDOW_MS = 0 /\ PttStart(s)
    \/ \E s \in HeavySockets : handled[s].sec # NowSec(now) /\ Signal(s)
    \/ now < MaxSeconds * 1000 /\ Tick(1000)

SpecBounded == Init /\ [][NextBounded]_vars

\* the refresh timer against a slow backend: requests overlap and are
\* answered in any order while a session reads the snapshot
NextRefresh ==
    \/ RefreshRequest
    \/ \E r \in 1..MaxFetches, list \in Directories : RefreshAnswerArray(r, list)
    \/ \E r \in 1..MaxFetches : RefreshAnswerNotArray(r)
    \/ \E r \in 1..MaxFetches : RefreshAnswerError(r)
    \/ \E s \in HeavySockets : Connect(s, FALSE, TRUE)
    \/ \E s \in HeavySockets : IdLookupOk(s, FireUser)
    \/ \E s \in HeavySockets, c \in ChannelIds : JoinChannel(s, c)
    \/ \E s \in HeavySockets : GetChannels(s)

SpecRefresh == Init /\ [][NextRefresh]_vars

\* PTT-start rate limiting against the clock
NextRate ==
    \/ CHANNELS = <<>> /\ LoadChannelsArray(FullDirectory)
    \/ \E s \in Sockets : Connect(s, FALSE, TRUE)
    \/ \E s \in Sockets : IdLookupOk(s, FireUser)
    \/ \E s \in HeavySockets, c \in ChannelIds : JoinChannel(s, c)
    \/ \E s \in Sockets \ HeavySockets : JoinChannel(s, "A")
    \/ \E s \in Sockets : (s \in HeavySockets \/ accepted[s] = <<>>) /\ PttStart(s)
    \/ now < MaxTicks * RateStep /\ Tick(RateStep)

SpecRate == Init /\ [][NextRate]_vars

\* the clock steps of SpecChunk: half the span of seconds the clean-up keeps
ChunkStep == ((CHUNK_KEEP_SECONDS + 1) * 1000) \div 2

\* audio chunk limiting against the clock
NextChunk ==
    \/ CHANNELS = <<>> /\ LoadChannelsArray(FullDirectory)
    \/ \E s \in Sockets : Connect(s, FALSE, TRUE)
    \/ \E s \in Sockets : IdLookupOk(s, FireUser)
    \/ \E s \in HeavySockets, c \in ChannelIds : JoinChannel(s, c)
    \/ \E s \in Sockets \ HeavySockets : JoinChannel(s, "A")
    \/ \E s \in HeavySockets :
          /\ \/ handled[s].sec # NowSec(now)
             \/ handled[s].n < MAX_CHUNKS_PER_SECOND + MaxOver
          /\ Signal(s)
    \/ now < MaxTicks * ChunkStep /\ Tick(ChunkStep)

SpecChunk == Init /\ [][NextChunk]_vars

\* the directory refreshed with every outcome while sessions join, monitor,
\* transmit and disconnect; the heavy session sends at most one start and
\* one chunk, the others only stop
NextDirectory ==
    \/ \E list \in Directories : LoadChannelsArray(list)
    \/ LoadChannelsNotArray
    \/ LoadChannelsError
    \/ ConnectById
    \/ \E s \in Sockets, c \in ChannelIds : JoinChannel(s, c)
    \/ \E s \in Sockets, c \in ChannelIds : MonitorChannel(s, c)
    \/ \E s \in Sockets : Disconnect(s)
    \/ \E s \in HeavySockets : accepted[s] = <<>> /\ PttStart(s)
    \/ \E s \in Sockets : PttStop(s)
    \/ \E s \in HeavySockets : handled[s].n = 0 /\ Signal(s)

SpecDirectory == Init /\ [][NextDirectory]_vars

\* field values of user and channel documents: "" is a missing or empty
\* string field, {} a missing, non-array or empty list
AccessDepartments == {"", "fire", "police"}

AccessRoles == {"staff", "medic"}

\* "other" is a type the switch does not name, "" a missing type
AccessTypes == {"public", "department", "staff", "custom", "other", ""}

AccessUsers ==
    [id : {"u3"}, isStaff : Bool, department : AccessDepartments,
     roles : SUBSET AccessRoles]

AccessChannels ==
    [id : {"A"}, type : AccessTypes, department : AccessDepartments,
     allowedRoles : SUBSET AccessRoles]

\* one admitted session of any user document, and a directory snapshot that
\* holds channel A with a definition of any type and the public channel B
InitAccess ==
    /\ \E channel \in AccessChannels :
          CHANNELS = <<channel, ChanDef("B", "public", "")>>
    /\ \E user \in AccessUsers : clients = MapPut(EmptyMap, 1, NewSession(user))
    /\ channelMembers = EmptyMap
    /\ rooms = [c \in ChannelIds |-> {}]
    /\ phase = [s \in Sockets |-> IF s = 1 THEN "registered" ELSE "idle"]
    /\ connected = [s \in Sockets |-> s = 1]
    /\ now = 0
    /\ events = <<>>
    /\ last = [op |-> "validated", sid |-> 1, arg |-> "id"]
    /\ accepted = [s \in Sockets |-> <<>>]
    /\ handled = [s \in Sockets |-> [sec |-> -1, n |-> 0]]
    /\ refresh = NoRefresh
    /\ naming = [s \in Sockets |-> {}]

\* the access checks of joinChannel and monitorChannel for every user and
\* channel definition; the session sends at most one start
NextAccess ==
    \/ \E s \in DOMAIN clients, c \in ChannelIds : JoinChannel(s, c)
    \/ \E s \in DOMAIN clients, c \in ChannelIds : MonitorChannel(s, c)
    \/ \E s \in DOMAIN clients : accepted[s] = <<>> /\ PttStart(s)

SpecAccess == InitAccess /\ [][NextAccess]_vars

\* the minimal radio server: sessions join, switch, transmit and disconnect
NextMini ==
    \/ \E s \in Sockets, ok \in Bool, user \in Profiles : MiniConnect(s, ok, user)
    \/ \E s \in Sockets, c \in ChannelIds : MiniJoinChannel(s, c)
    \/ \E s \in Sockets, c \in ChannelIds : MiniJoined(s, c)
    \/ \E s \in Sockets : MiniRelayAudio(s)
    \/ \E s \in Sockets, st \in {"start", "stop"} : MiniBroadcastPTT(s, st)
    \/ \E s \in Sockets : MiniDisconnect(s)

SpecMini == Init /\ [][NextMini]_vars

(* ======================= membership and rooms ========================== *)

\* the channels whose primary member set holds session s
PrimarySetsOf(s) ==
    {c \in DOMAIN channelMembers : s \in Range(channelMembers[c])}

AtMostOnePrimary ==
    \A s \in DOMAIN clients : Cardinality(PrimarySetsOf(s)) <= 1

\* a joinChannel step that passed the directory and the access check
JoinedStep ==
    /\ last'.op = "joinChannel"
    /\ \E i \in DOMAIN events' : events'[i].type = "joined"

\* what a successful joinChannel(B) does for a session whose primary is A:
\* first A's roster without the session, to A's room without the session,
\* then "joined", then B's roster with the session
SwitchStep ==
    LET s == last'.sid
        A == clients[s].currentChannel
        B == last'.arg
    IN (JoinedStep /\ A # NoChannel) =>
          /\ Len(events') = 3
          /\ events'[1].type = "channel_roster"
          /\ events'[1].channelId = A
          /\ s \notin Range(events'[1].sids)
          /\ s \notin events'[1].to
          /\ events'[2].type = "joined"
          /\ events'[3].type = "channel_roster"
          /\ events'[3].channelId = B
          /\ s \in Range(events'[3].sids)
          /\ A # B => s \notin Range(channelMembers'[A])
          /\ s \in Range(channelMembers'[B])
          /\ clients'[s].currentChannel = B

\* C1: every registered session is in the primary member set of at most one
\* channel, and a successful joinChannel(B) of a session whose primary is A
\* takes it out of A's member set and broadcasts A's roster without it
\* before it is added to B.
C1_OnePrimary == []AtMostOnePrimary /\ [][SwitchStep]_vars

\* a session has just switched from one primary channel to another
C1_Witness ==
    /\ last.op = "joinChannel"
    /\ Len(events) = 3
    /\ events[1].type = "channel_roster"
    /\ events[1].channelId # events[3].channelId
    /\ Cardinality(PrimarySetsOf(last.sid)) = 1

\* C2: every registered session is in the room of its primary channel and
\* in the room of every channel in its monitoring set.
C2_InRoomsOfPrimaryAndMonitored ==
    \A s \in DOMAIN clients :
       /\ clients[s].currentChannel # NoChannel =>
             s \in rooms[clients[s].currentChannel]
       /\ \A c \in clients[s].monitoring : s \in rooms[c]

\* C3: every session in a channel's room has that channel as its primary
\* channel or in its monitoring set.
C3_RoomMembersJoinedOrMonitor ==
    \A c \in DOMAIN rooms : \A s \in rooms[c] :
       /\ s \in DOMAIN clients
       /\ clients[s].currentChannel = c \/ c \in clients[s].monitoring

\* a staff session stopped monitoring its primary channel and stays in its
\* room, while another session has left a room by disconnecting
C3_Witness ==
    /\ last.op = "unmonitorChannel"
    /\ events # <<>>
    /\ clients[last.sid].currentChannel = last.arg
    /\ last.sid \in rooms[last.arg]
    /\ \E s \in Sockets : phase[s] = "closed"

(* ============================ authentication =========================== *)

LookupPhases == {"tokenLookup", "tokenLookupThenId", "idLookup"}

\* the step in which validateUser resolves with a user document for s
ReturnedProfile(s) ==
    /\ last'.op = "validated"
    /\ last'.sid = s
    /\ last'.arg \in {"token", "id"}

\* the step in which validateUser resolves with null for s: no credentials,
\* or the last lookup it could try failed
ReturnedNoProfile(s) ==
    /\ last'.sid = s
    /\ \/ last'.op = "connection" /\ phase'[s] \notin LookupPhases
       \/ last'.op = "validated" /\ last'.arg = "idFailed"
       \/ last'.op = "validated" /\ last'.arg = "tokenFailed"
                                 /\ phase[s] = "tokenLookup"

FreshSession(state) ==
    /\ state.currentChannel = NoChannel
    /\ state.monitoring = {}
    /\ state.pttStarts = <<>>
    /\ DOMAIN state.chunksPerSecond = {}

AdmissionStep ==
    \A s \in Sockets :
       /\ (s \notin DOMAIN clients /\ s \in DOMAIN clients') => ReturnedProfile(s)
       /\ ReturnedProfile(s) =>
             /\ s \notin DOMAIN clients
             /\ DOMAIN clients' = DOMAIN clients \cup {s}
             /\ FreshSession(clients'[s])
             /\ \A o \in DOMAIN clients : clients'[o] = clients[o]
             /\ Len(SelectSeq(events', LAMBDA e : e.type = "auth_success"
                                                  /\ e.to = {s})) = 1
             /\ \A i \in DOMAIN events' : events'[i].type # "auth_failed"
       /\ ReturnedNoProfile(s) =>
             /\ events' = <<EmitSelf(s, "auth_failed", "")>>
             /\ ~connected'[s]
             /\ phase'[s] = "rejected"
             /\ clients' = clients
       /\ phase[s] = "rejected" => phase'[s] = "rejected"

NeverAdmitted ==
    \A s \in Sockets : phase[s] = "rejected" => s \notin DOMAIN clients

\* C4: a session enters the registry only in the step in which validation
\* returned a profile for its connection; that step creates exactly one
\* session, with no primary channel, no monitored channel and empty
\* rate-limit counters, and emits auth_success; when validation returns no
\* profile the connection gets auth_failed, is closed and never has a
\* session.
C4_AdmittedOnlyAfterValidation == []NeverAdmitted /\ [][AdmissionStep]_vars

\* one connection was rejected after both lookups failed, another one was
\* admitted by the id lookup after its token lookup failed
C4_Witness ==
    /\ last.op = "validated"
    /\ last.arg = "id"
    /\ last.sid \in DOMAIN clients
    /\ connected[last.sid]
    /\ \E s \in Sockets : phase[s] = "rejected"

\* C6: the registry holds sessions of open connections only, also when the
\* disconnect arrived while validation was in flight.
C6_RegistryOnlyOpenConnections ==
    \A s \in DOMAIN clients : connected[s]

(* ============================== disconnect ============================= *)

\* the "disconnect" handler runs for a registered session with a primary
\* channel
LeavesPrimary(s) ==
    /\ last'.op = "disconnect"
    /\ last'.sid = s
    /\ s \in DOMAIN clients
    /\ clients[s].currentChannel # NoChannel

\* the one roster broadcast of that step: X's roster, to what is left of
\* X's room, one entry per session left in X's member set
FinalRoster(s) ==
    LET X == clients[s].currentChannel IN
    /\ s \notin DOMAIN clients'
    /\ s \notin Range(channelMembers'[X])
    /\ Len(events') = 1
    /\ events'[1].type = "channel_roster"
    /\ events'[1].channelId = X
    /\ events'[1].to = rooms[X] \ {s}
    /\ events'[1].to = rooms'[X]
    /\ events'[1].sids = channelMembers'[X]
    /\ s \notin Range(events'[1].sids)
    /\ events'[1].roster =
          [i \in DOMAIN events'[1].sids |->
              getUserDisplay(clients[events'[1].sids[i]].user)]

\* no entry of that roster shows the user of the disconnected session
UserNotListed(s) ==
    \A i \in DOMAIN events'[1].roster :
       events'[1].roster[i].id # clients[s].user.id

RelayTypes == {"channel_roster", "ptt_state", "signal"}

\* a session whose disconnect handler ran is in no map, no member set, no
\* room and no relayed message
Gone(s) ==
    /\ s \notin DOMAIN clients
    /\ \A c \in DOMAIN channelMembers : s \notin Range(channelMembers[c])
    /\ \A c \in DOMAIN rooms : s \notin rooms[c]
    /\ \A i \in DOMAIN events :
          events[i].type \in RelayTypes =>
             /\ events[i].sid # s
             /\ s \notin Range(events[i].sids)
             /\ s \notin events[i].to

AfterDisconnect == \A s \in Sockets : phase[s] = "closed" => Gone(s)

StaysClosed ==
    \A s \in Sockets : phase[s] = "closed" => phase'[s] = "closed" /\ last'.sid # s

\* C5 as amended: the disconnect of a registered session with primary X
\* removes it from the registry and from X's member set and broadcasts X's
\* roster once, to the rest of X's room, with exactly one entry per session
\* left in X's member set and so none for the disconnected session; after
\* that the session is named by no roster, ptt_state or signal and no event
\* is handled for its connection.
C5_DisconnectCleanup ==
    /\ []AfterDisconnect
    /\ [][StaysClosed]_vars
    /\ [][\A s \in Sockets : LeavesPrimary(s) => FinalRoster(s)]_vars

\* C5 as stated: as above, and the roster of that broadcast does not list
\* the user of the disconnected session.
C5_RosterOmitsUser ==
    /\ []AfterDisconnect
    /\ [][StaysClosed]_vars
    /\ [][\A s \in Sockets :
            LeavesPrimary(s) => FinalRoster(s) /\ UserNotListed(s)]_vars

\* a session left its primary channel by disconnecting and the roster went
\* to a staff session that only monitors that channel
C5_Witness ==
    /\ last.op = "disconnect"
    /\ phase[last.sid] = "closed"
    /\ Len(events) = 1
    /\ \E m \in events[1].to :
          /\ events[1].channelId \in clients[m].monitoring
          /\ clients[m].currentChannel # events[1].channelId

(* ================================ relay ================================ *)

\* C10: every ptt_state and signal emitted for a session carries the id of
\* that session's primary channel and goes to exactly the connections in
\* that channel's room, so to no room the session only monitors or has
\* left.
C10_RelayScopedToPrimary ==
    \A i \in DOMAIN events :
       events[i].type \in {"ptt_state", "signal"} =>
          /\ events[i].sid \in DOMAIN clients
          /\ events[i].channelId # NoChannel
          /\ events[i].channelId = clients[events[i].sid].currentChannel
          /\ events[i].to = rooms[events[i].channelId]

\* a staff session transmits on its primary channel while it monitors another
\* channel whose room holds a session that does not get the message
C10_Witness ==
    /\ last.op \in {"ptt_start", "signal"}
    /\ Len(events) = 1
    /\ events[1].type \in {"ptt_state", "signal"}
    /\ \E c \in clients[last.sid].monitoring :
          /\ c # events[1].channelId
          /\ rooms[c] \ events[1].to # {}

(* ========================== PTT-start rate limit ======================= *)

\* the starts of history hist that are less than one window old at time t
WindowCount(hist, t) ==
    Cardinality({i \in DOMAIN hist : t - hist[i] < PTT_WINDOW_MS})

\* the handler that ran last is ptt_start, for a session with a primary
PttHandled ==
    /\ last.op = "ptt_start"
    /\ last.sid \in DOMAIN clients
    /\ clients[last.sid].currentChannel # NoChannel

PttAccepted == events # <<>> /\ events[1].type = "ptt_state"

\* a handled ptt_start is accepted iff fewer than MAX_PTT_STARTS_PER_10S
\* starts of the session were accepted less than one window before it
PttDecision ==
    PttHandled =>
       LET s == last.sid
           hist == accepted[s]
           prior == IF PttAccepted THEN SubSeq(hist, 1, Len(hist) - 1) ELSE hist
           state == clients[s]
       IN /\ PttAccepted <=> WindowCount(prior, now) < MAX_PTT_STARTS_PER_10S
          /\ PttAccepted =>
                /\ events = <<Ev("ptt_state", rooms[state.currentChannel],
                                 state.currentChannel, s, "start", <<>>, <<>>)>>
                /\ hist # <<>> /\ hist[Len(hist)] = now
                /\ state.pttStarts # <<>>
                /\ state.pttStarts[Len(state.pttStarts)] = now
          /\ ~PttAccepted => events = <<EmitSelf(s, "denied", "")>>

\* no window of PTT_WINDOW_MS holds more than the ceiling of accepted starts
RollingWindow ==
    \A s \in Sockets : \A t \in Range(accepted[s]) :
       Cardinality({j \in DOMAIN accepted[s] :
                       /\ accepted[s][j] >= t
                       /\ accepted[s][j] - t < PTT_WINDOW_MS})
          <= MAX_PTT_STARTS_PER_10S

\* the starts of list q made at time t
CountOf(q, t) == Cardinality({i \in DOMAIN q : q[i] = t})

\* whatever else is handled (joinChannel included), a session's recorded
\* starts keep every accepted start that is less than one window old
StartsKept ==
    \A s \in DOMAIN clients : \A t \in Range(accepted[s]) :
       now - t < PTT_WINDOW_MS =>
          CountOf(clients[s].pttStarts, t) = CountOf(accepted[s], t)

\* C7: with a non-decreasing clock a ptt_start of a session with a primary
\* channel is accepted (recorded and broadcast) iff fewer than 10 starts of
\* that session were accepted in the 10 seconds before it; no 10-second
\* window holds more than 10 accepted starts of a session; the count is per
\* session and switching the primary channel does not reset it.
C7_PttStartRateLimit == PttDecision /\ RollingWindow /\ StartsKept

\* ten starts at time 0, then one accepted as soon as they are one window
\* old, by a session whose primary channel is B after A's member set exists
C7_Witness ==
    /\ PttHandled /\ PttAccepted
    /\ clients[last.sid].currentChannel = "B"
    /\ "A" \in DOMAIN channelMembers
    /\ Len(accepted[last.sid]) = MAX_PTT_STARTS_PER_10S + 1
    /\ accepted[last.sid][MAX_PTT_STARTS_PER_10S] = 0
    /\ now = PTT_WINDOW_MS

DeniedStart ==
    /\ last'.op = "ptt_start"
    /\ \E i \in DOMAIN events' : events'[i].type = "denied"

\* C8: a rate-limited ptt_start emits one denied message to its sender and
\* changes nothing: no recorded start, no primary channel, monitoring set,
\* member set or room, and the session stays registered and connected.
C8_DeniedStartChangesNothing ==
    [][DeniedStart =>
          /\ events' = <<EmitSelf(last'.sid, "denied", "")>>
          /\ clients' = clients
          /\ channelMembers' = channelMembers
          /\ rooms' = rooms
          /\ accepted' = accepted
          /\ phase' = phase
          /\ connected' = connected
          /\ last'.sid \in DOMAIN clients'
          /\ connected'[last'.sid]]_vars

\* a start was denied while another session shares the sender's channel
C8_Witness ==
    /\ last.op = "ptt_start"
    /\ events = <<EmitSelf(last.sid, "denied", "")>>
    /\ Cardinality(rooms[clients[last.sid].currentChannel]) = 2
    /\ Len(clients[last.sid].pttStarts) = MAX_PTT_STARTS_PER_10S

(* ========================== audio chunk limit ========================== *)

SignalHandled ==
    /\ last.op = "signal"
    /\ last.sid \in DOMAIN clients
    /\ clients[last.sid].currentChannel # NoChannel

\* C9: of the chunks a session with a primary channel sends in one second,
\* the first 30 are relayed to the whole room of its primary channel; each
\* further one is counted in the same second's counter and emits nothing.
C9_ChunkLimit ==
    SignalHandled =>
       LET s == last.sid
           state == clients[s]
       IN /\ handled[s].sec = NowSec(now)
          /\ CountAt(state.chunksPerSecond, NowSec(now)) = handled[s].n
          /\ IF handled[s].n <= MAX_CHUNKS_PER_SECOND
             THEN events = <<Ev("signal", rooms[state.currentChannel],
                                state.currentChannel, s, "", <<>>, <<>>)>>
             ELSE events = <<>>

\* the 31st chunk of a later second was dropped while a listener shares the
\* channel
C9_Witness ==
    /\ SignalHandled
    /\ handled[last.sid].n = MAX_CHUNKS_PER_SECOND + 1
    /\ handled[last.sid].sec > 0
    /\ events = <<>>
    /\ Cardinality(rooms[clients[last.sid].currentChannel]) = 2

(* ============================ access evaluator ========================= *)

\* the staff test of the access table
TableStaff(user) == user.isStaff \/ "staff" \in user.roles

\* the table's custom row for a user who is not staff
TableCustom(user, channel) ==
    /\ channel.department = "" \/ user.department = channel.department
    /\ channel.allowedRoles = {} \/ channel.allowedRoles \cap user.roles # {}

\* the access table as the claim states it
AccessTableAsStated(user, channel) ==
    \/ channel.type = "public"
    \/ channel.type = "department"
          /\ (TableStaff(user) \/ user.department = channel.department)
    \/ channel.type = "staff" /\ TableStaff(user)
    \/ channel.type = "custom" /\ (TableStaff(user) \/ TableCustom(user, channel))

\* the access table with a department row that asks the user to have a
\* department
AccessTable(user, channel) ==
    \/ channel.type = "public"
    \/ channel.type = "department"
          /\ \/ TableStaff(user)
             \/ user.department # "" /\ user.department = channel.department
    \/ channel.type = "staff" /\ TableStaff(user)
    \/ channel.type = "custom" /\ (TableStaff(user) \/ TableCustom(user, channel))

\* a joinChannel was handled for a registered session and a known channel
JoinEvaluated ==
    /\ last.op = "joinChannel"
    /\ last.sid \in DOMAIN clients
    /\ HasChannel(last.arg)

JoinPermitted == \E i \in DOMAIN events : events[i].type = "joined"

\* C11 as stated: for every user and channel the evaluator equals the table
\* whose department row is "staff, or the user's department equals the
\* channel's".
C11_AccessTableAsStated ==
    \A s \in DOMAIN clients : \A i \in DOMAIN CHANNELS :
       userCanJoinChannel(clients[s].user, CHANNELS[i])
          <=> AccessTableAsStated(clients[s].user, CHANNELS[i])

\* C11 as amended: for every user and channel the evaluator equals the
\* access table (public: always; department: staff, or the user has a
\* department and it equals the channel's; staff: staff only; custom: staff,
\* or no department restriction the user misses and no non-empty role list
\* the user's roles miss; any other or missing type: nobody), and joinChannel
\* admits exactly the users the table permits.
C11_AccessTable ==
    /\ \A s \in DOMAIN clients : \A i \in DOMAIN CHANNELS :
          userCanJoinChannel(clients[s].user, CHANNELS[i])
             <=> AccessTable(clients[s].user, CHANNELS[i])
    /\ JoinEvaluated =>
          (JoinPermitted <=> AccessTable(clients[last.sid].user,
                                         getChannelById(last.arg)))

\* a user who is not staff joined a custom channel that restricts both the
\* department and the roles
C11_Witness ==
    /\ JoinEvaluated /\ JoinPermitted
    /\ ~TableStaff(clients[last.sid].user)
    /\ getChannelById(last.arg).type = "custom"
    /\ getChannelById(last.arg).department # ""
    /\ getChannelById(last.arg).allowedRoles # {}

(* ======================= access checks of the handlers ================= *)

\* channel c enters the monitoring set of session s in this step
MonitorAdded(s, c) ==
    /\ s \in DOMAIN clients'
    /\ c \in clients'[s].monitoring
    /\ s \in DOMAIN clients => c \notin clients[s].monitoring

\* a monitorChannel was handled for a registered session that is not staff
MonitorByNonStaff ==
    /\ last'.op = "monitorChannel"
    /\ last'.sid \in DOMAIN clients
    /\ ~TableStaff(clients[last'.sid].user)

\* C12: a channel enters a session's monitoring set only if the session's
\* user is staff and the access evaluator permits that user on the channel;
\* a monitorChannel of a non-staff session is answered with a denial and
\* changes nothing.
C12_MonitorNeedsStaffAndAccess ==
    /\ [][\A s \in Sockets : \A c \in ChannelIds :
            MonitorAdded(s, c) =>
               /\ TableStaff(clients'[s].user)
               /\ HasChannel(c)
               /\ userCanJoinChannel(clients'[s].user, getChannelById(c))]_vars
    /\ [][MonitorByNonStaff =>
            /\ events' = <<EmitSelf(last'.sid, "denied", last'.arg)>>
            /\ clients' = clients
            /\ rooms' = rooms]_vars

\* a joinChannel that the access evaluator denied
DeniedJoin ==
    /\ last'.op = "joinChannel"
    /\ \E i \in DOMAIN events' : events'[i].type = "denied"

\* the joinChannel handled right after a denied one, for a channel the
\* table permits, succeeds
LaterJoinSucceeds ==
    ( /\ last.op = "joinChannel"
      /\ events = <<EmitSelf(last.sid, "denied", last.arg)>>
      /\ last'.op = "joinChannel"
      /\ last'.sid = last.sid
      /\ HasChannel(last'.arg)
      /\ AccessTable(clients[last.sid].user, getChannelById(last'.arg)) )
    => /\ \E i \in DOMAIN events' : events'[i].type = "joined"
       /\ clients'[last.sid].currentChannel = last'.arg
       /\ last.sid \in Range(channelMembers'[last'.arg])
       /\ last.sid \in rooms'[last'.arg]

\* C13: a joinChannel that the access evaluator denies emits one denied
\* message to the requester and nothing else (no roster), and leaves the
\* registry (primary channel, monitoring set, rate-limit counters), every
\* member set and every room as they were; the session stays registered and
\* connected, and its next joinChannel for a permitted channel succeeds.
C13_DeniedJoinChangesNothing ==
    /\ [][DeniedJoin =>
            /\ events' = <<EmitSelf(last'.sid, "denied", last'.arg)>>
            /\ clients' = clients
            /\ channelMembers' = channelMembers
            /\ rooms' = rooms
            /\ accepted' = accepted
            /\ phase' = phase
            /\ connected' = connected
            /\ last'.sid \in DOMAIN clients'
            /\ connected'[last'.sid]]_vars
    /\ [][LaterJoinSucceeds]_vars

\* a session with primary channel B, a monitored channel and a recorded
\* start was denied on channel A
C13_Witness ==
    /\ last.op = "joinChannel"
    /\ events = <<EmitSelf(last.sid, "denied", "A")>>
    /\ clients[last.sid].currentChannel = "B"
    /\ last.sid \in Range(channelMembers["B"])
    /\ last.sid \in rooms["B"]
    /\ clients[last.sid].monitoring # {}
    /\ clients[last.sid].pttStarts # <<>>

\* a joinChannel of a registered session, or a monitorChannel of a registered
\* staff session, that names a channel the snapshot does not hold
NotFoundRequest ==
    /\ last'.sid \in DOMAIN clients
    /\ ~HasChannel(last'.arg)
    /\ \/ last'.op = "joinChannel"
       \/ last'.op = "monitorChannel" /\ TableStaff(clients[last'.sid].user)

\* C14: a joinChannel or monitorChannel that names a channel id missing from
\* the directory snapshot emits one not-found message to the requester and
\* leaves the registry (primary channel, monitoring set), every member set
\* and every room unchanged.
C14_NotFoundDenial ==
    [][NotFoundRequest =>
          /\ events' = <<EmitSelf(last'.sid, "errorMsg", last'.arg)>>
          /\ clients' = clients
          /\ channelMembers' = channelMembers
          /\ rooms' = rooms]_vars

(* ============================ roster broadcasts ======================== *)

\* channel c's primary member set in the map cm (empty when c has none)
MembersOf(cm, c) == IF c \in DOMAIN cm THEN cm[c] ELSE <<>>

\* the channel_roster messages among the messages evs, in emission order
RostersOf(evs) == SelectSeq(evs, LAMBDA e : e.type = "channel_roster")

\* the primary channel the session of this step's event has before the step
PrevPrimary ==
    IF last'.sid \in DOMAIN clients
    THEN clients[last'.sid].currentChannel
    ELSE NoChannel

\* the step removes the session of its event from its primary member set
RemovesMember ==
    /\ PrevPrimary # NoChannel
    /\ \/ JoinedStep
       \/ last'.op = "disconnect" /\ last'.sid \notin DOMAIN clients'

\* the step adds the session of its event to a primary member set
AddsMember == JoinedStep

\* member sets change only by the removal and the addition of the step's
\* session
OnlyMemberChanges ==
    \A c \in ChannelIds :
       MembersOf(channelMembers', c) # MembersOf(channelMembers, c) =>
          /\ \/ RemovesMember /\ c = PrevPrimary
             \/ AddsMember /\ c = last'.arg
          /\ SetDelete(MembersOf(channelMembers', c), last'.sid)
                = SetDelete(MembersOf(channelMembers, c), last'.sid)

\* one roster per removal and per addition, in that order, each computed
\* from the member set as it is at the broadcast
OneRosterPerChange ==
    LET s == last'.sid
        rs == RostersOf(events')
        nRem == IF RemovesMember THEN 1 ELSE 0
        nAdd == IF AddsMember THEN 1 ELSE 0
    IN /\ Len(rs) = nRem + nAdd
       /\ RemovesMember =>
             /\ rs[1].channelId = PrevPrimary
             /\ rs[1].sids = SetDelete(channelMembers[PrevPrimary], s)
             /\ s \in Range(channelMembers[PrevPrimary])
       /\ AddsMember =>
             /\ rs[Len(rs)].channelId = last'.arg
             /\ rs[Len(rs)].sids = channelMembers'[last'.arg]
             /\ s \in Range(rs[Len(rs)].sids)
       /\ (RemovesMember /\ ~(AddsMember /\ last'.arg = PrevPrimary)) =>
             rs[1].sids = channelMembers'[PrevPrimary]

\* every roster has one entry per session it was computed from, each a
\* registered session, none twice
RosterEntries ==
    \A i \in DOMAIN events' :
       events'[i].type = "channel_roster" =>
          LET e == events'[i] IN
          /\ Len(e.roster) = Len(e.sids)
          /\ Cardinality(Range(e.sids)) = Len(e.sids)
          /\ \A k \in DOMAIN e.sids :
                /\ e.sids[k] \in DOMAIN clients
                /\ e.roster[k] = getUserDisplay(clients[e.sids[k]].user)

\* C15: every addition of a session to, and every removal of a session
\* from, a primary member set (joinChannel, switching away, disconnect) is
\* followed in the same handler by exactly one channel_roster for that
\* channel, no handler emits any other roster, and a roster has exactly one
\* entry per session in the member set at the broadcast: none for a session
\* that left or disconnected, no session twice.
C15_OneRosterPerMembershipChange ==
    [][OnlyMemberChanges /\ OneRosterPerChange /\ RosterEntries]_vars

\* a session joined its own primary channel again while another session is
\* a member: one roster without it, then one with both
C15_Witness ==
    /\ last.op = "joinChannel"
    /\ Len(RostersOf(events)) = 2
    /\ RostersOf(events)[1].channelId = RostersOf(events)[2].channelId
    /\ Len(RostersOf(events)[1].sids) = 1
    /\ Len(RostersOf(events)[2].sids) = 2

(* ============================ directory refresh ======================== *)

\* a refresh whose request failed or whose body was not a list
FailedRefresh ==
    /\ last'.op = "loadChannels"
    /\ last'.arg \in {"error", "notArray"}

\* C16: a directory refresh that fails (request error, non-2xx status, or a
\* body that is not a list) leaves the snapshot as it was before it.
C16_FailedRefreshKeepsSnapshot ==
    [][FailedRefresh => CHANNELS' = CHANNELS]_vars

\* a ptt_start, ptt_stop or signal was handled for a session with a primary
\* channel
RelayHandled ==
    /\ last.op \in {"ptt_start", "ptt_stop", "signal"}
    /\ last.sid \in DOMAIN clients
    /\ clients[last.sid].currentChannel # NoChannel

\* the one message a relay handler emits for the session of its event
RelayMessage ==
    LET state == clients[last.sid] IN
    Ev(IF last.op = "signal" THEN "signal" ELSE "ptt_state",
       rooms[state.currentChannel], state.currentChannel, last.sid,
       CASE last.op = "ptt_start" -> "start"
         [] last.op = "ptt_stop" -> "stop"
         [] OTHER -> "",
       <<>>, <<>>)

\* C17: no directory refresh, whatever its outcome, changes the registry
\* (primary channels, monitoring sets), a member set or a room; and the
\* ptt_start, ptt_stop and signal of a session below its rate limits are
\* relayed to the room of its primary channel whether or not the snapshot
\* still holds that channel.
C17_RefreshLeavesMembershipAndRelay ==
    /\ [][last'.op = "loadChannels" =>
            /\ clients' = clients
            /\ channelMembers' = channelMembers
            /\ rooms' = rooms]_vars
    /\ [](RelayHandled => events = <<RelayMessage>>)

\* a chunk was relayed to both connections in the room of a channel that the
\* snapshot no longer holds
C17_Witness ==
    /\ RelayHandled
    /\ last.op = "signal"
    /\ ~HasChannel(clients[last.sid].currentChannel)
    /\ events = <<RelayMessage>>
    /\ Cardinality(events[1].to) = 2

(* ============================== validateUser =========================== *)

\* every session was admitted with a well-formed profile
WellFormedAdmitted == \A s \in DOMAIN clients : clients[s].user \in Profiles

\* validateUser for connection s, step by step: the token lookup goes first
\* when a token is supplied; a failed token lookup falls back to the id
\* lookup when an identifier is supplied; without credentials, or when the
\* last lookup it can try has failed, it resolves with no profile and the
\* connection is rejected
ValidateStep(s) ==
    /\ (last'.op = "connection" /\ last'.sid = s) =>
          CASE last'.arg = "token+userId" -> phase'[s] = "tokenLookupThenId"
            [] last'.arg = "token" -> phase'[s] = "tokenLookup"
            [] last'.arg = "userId" -> phase'[s] = "idLookup"
            [] OTHER -> phase'[s] = "rejected" /\ s \notin DOMAIN clients'
    /\ (last'.op = "validated" /\ last'.sid = s /\ last'.arg = "tokenFailed") =>
          IF phase[s] = "tokenLookupThenId"
          THEN phase'[s] = "idLookup" /\ events' = <<>> /\ connected' = connected
          ELSE phase'[s] = "rejected" /\ s \notin DOMAIN clients'
    /\ (last'.op = "validated" /\ last'.sid = s /\ last'.arg = "idFailed") =>
          phase'[s] = "rejected" /\ s \notin DOMAIN clients'
    /\ (last'.op = "validated" /\ last'.sid = s /\ last'.arg = "token") =>
          phase[s] \in {"tokenLookup", "tokenLookupThenId"}
    /\ (last'.op = "validated" /\ last'.sid = s /\ last'.arg = "id") =>
          phase[s] = "idLookup"

\* C18: validateUser tries the token lookup first when a token is supplied,
\* falls back to the identifier lookup when the token lookup fails and an
\* identifier is supplied, resolves with no profile when no credentials are
\* supplied or every lookup it can try fails, and resolves with a profile
\* only when a lookup returned a well-formed profile.
C18_ValidateUser ==
    /\ []WellFormedAdmitted
    /\ [][\A s \in Sockets : ValidateStep(s)]_vars

\* validateUser has not resolved for connection s
Undecided(s) == phase[s] \in LookupPhases \cup {"hung"}

\* connection s was sent auth_success or auth_failed
Decided(s) == phase[s] \in {"registered", "rejected", "closed"}

\* C19: every connection that stays open is eventually sent auth_success or
\* auth_failed, also when the identity service never answers a lookup.
C19_EveryConnectionDecided ==
    \A s \in Sockets :
       (connected[s] /\ Undecided(s)) ~> (Decided(s) \/ ~connected[s])

(* ===================== events during a pending validation ============== *)

\* a client event arrives on a connection whose validation is in flight
EventWhilePending ==
    /\ last'.op \in ClientEvents
    /\ phase[last'.sid] \in LookupPhases

\* every handler of session o can run
HandlersEnabled(o) ==
    /\ \A c \in ChannelIds :
          /\ ENABLED JoinChannel(o, c)
          /\ ENABLED MonitorChannel(o, c)
          /\ ENABLED UnmonitorChannel(o, c)
    /\ ENABLED PttStart(o)
    /\ ENABLED PttStop(o)
    /\ ENABLED Signal(o)
    /\ ENABLED GetChannels(o)

\* while a validation is pending, the events of every open, admitted
\* session are handled
NotBlocked ==
    (\E s \in Sockets : connected[s] /\ phase[s] \in LookupPhases) =>
       \A o \in Sockets : (Registered(o) /\ connected[o]) => HandlersEnabled(o)

\* C20: a joinChannel, monitorChannel, unmonitorChannel, ptt_start,
\* ptt_stop, signal or getChannels that arrives on a connection whose
\* validation is in flight changes no registry, membership, room or
\* rate-limit state and emits nothing; and a pending validation never keeps
\* the events of an open, admitted session from being handled.
C20_EventsWhilePending ==
    /\ [][EventWhilePending =>
            /\ events' = <<>>
            /\ clients' = clients
            /\ channelMembers' = channelMembers
            /\ rooms' = rooms
            /\ accepted' = accepted
            /\ handled' = handled
            /\ phase' = phase
            /\ connected' = connected]_vars
    /\ []NotBlocked

\* a joinChannel arrived on a connection whose validation is pending while
\* the other session is a member of a channel and has transmitted
C20_Witness ==
    /\ last.op = "joinChannel"
    /\ phase[last.sid] \in LookupPhases
    /\ connected[last.sid]
    /\ events = <<>>
    /\ \E o \in DOMAIN clients :
          /\ clients[o].currentChannel # NoChannel
          /\ accepted[o] # <<>>
          /\ HandlersEnabled(o)

(* ====================== sessions without a primary channel ============= *)

\* a ptt_start, ptt_stop or signal of a registered session that has no
\* primary channel
EventWithoutPrimary ==
    /\ last'.op \in {"ptt_start", "ptt_stop", "signal"}
    /\ last'.sid \in DOMAIN clients
    /\ clients[last'.sid].currentChannel = NoChannel

\* C21: for a registered session with no primary channel ptt_start, ptt_stop
\* and signal emit nothing and change nothing: no PTT timestamp is recorded
\* and no chunk counter is incremented, also when the session monitors
\* channels.
C21_NoPrimaryNoOp ==
    [][EventWithoutPrimary =>
          /\ events' = <<>>
          /\ clients' = clients
          /\ channelMembers' = channelMembers
          /\ rooms' = rooms
          /\ accepted' = accepted
          /\ handled' = handled]_vars

\* a staff session without a primary channel sent a chunk while it monitors
\* a channel whose room holds another session
C21_Witness ==
    /\ last.op = "signal"
    /\ last.sid \in DOMAIN clients
    /\ clients[last.sid].currentChannel = NoChannel
    /\ events = <<>>
    /\ \E c \in clients[last.sid].monitoring : Cardinality(rooms[c]) = 2

(* ================================ ptt_stop ============================= *)

\* a ptt_stop was handled for a session with a primary channel
StopHandled ==
    /\ last'.op = "ptt_stop"
    /\ last'.sid \in DOMAIN clients
    /\ clients[last'.sid].currentChannel # NoChannel

\* C22: every ptt_stop of a session with a primary channel emits one stop
\* ptt_state to the whole room of that channel, whatever the session's
\* recorded starts and chunk counters are, and leaves them (and everything
\* else) as they were.
C22_StopAlwaysBroadcast ==
    [][StopHandled =>
          LET s == last'.sid
              c == clients[s].currentChannel
          IN /\ events' = <<Ev("ptt_state", rooms[c], c, s, "stop", <<>>, <<>>)>>
             /\ clients' = clients
             /\ channelMembers' = channelMembers
             /\ rooms' = rooms
             /\ accepted' = accepted
             /\ handled' = handled]_vars

\* a stop was broadcast to both sessions of the channel while the sender's
\* start window is full (a start would be denied)
C22_Witness ==
    /\ last.op = "ptt_stop"
    /\ Len(events) = 1
    /\ events[1].state = "stop"
    /\ Cardinality(events[1].to) = 2
    /\ Len(clients[last.sid].pttStarts) = MAX_PTT_STARTS_PER_10S
    /\ DOMAIN clients[last.sid].chunksPerSecond # {}

(* ============================= monitorChannel ========================== *)

\* a monitorChannel of a registered staff session for a channel of the
\* snapshot
MonitorRequested ==
    /\ last'.op = "monitorChannel"
    /\ last'.sid \in DOMAIN clients
    /\ TableStaff(clients[last'.sid].user)
    /\ HasChannel(last'.arg)

\* what a successful monitorChannel(c) of session s does
MonitorEffect(s, c) ==
    /\ events' = <<EmitSelf(s, "monitoring", c)>>
    /\ clients' = [clients EXCEPT ![s].monitoring = @ \cup {c}]
    /\ rooms' = [rooms EXCEPT ![c] = @ \cup {s}]
    /\ channelMembers' = channelMembers
    /\ accepted' = accepted
    /\ handled' = handled

\* nothing emitted, nothing changed
NoEffect ==
    /\ events' = <<>>
    /\ clients' = clients
    /\ rooms' = rooms
    /\ channelMembers' = channelMembers
    /\ accepted' = accepted
    /\ handled' = handled

\* C23: monitorChannel(c) of a staff session that does not monitor c yet
\* adds exactly c to its monitoring set and the session to c's room, and
\* leaves its primary channel, every member set, every other session and
\* all rate-limit counters unchanged; a monitorChannel(c) of a session that
\* already monitors c emits nothing and changes nothing.
C23_MonitorEffect ==
    [][MonitorRequested =>
          IF last'.arg \in clients[last'.sid].monitoring
          THEN NoEffect
          ELSE MonitorEffect(last'.sid, last'.arg)]_vars

\* a staff session with a primary channel and a recorded start began to
\* monitor another channel whose room holds the other session
C23_Witness ==
    /\ last.op = "monitorChannel"
    /\ events = <<EmitSelf(last.sid, "monitoring", last.arg)>>
    /\ clients[last.sid].currentChannel \notin {NoChannel, last.arg}
    /\ clients[last.sid].pttStarts # <<>>
    /\ Cardinality(rooms[last.arg]) = 2

(* ========================= bounded rate-limit state ==================== *)

\* the seconds whose bucket the clean-up keeps at second sec
KeptSeconds(sec) == (sec - CHUNK_KEEP_SECONDS)..sec

\* C24: with a non-decreasing clock a session never holds more than 10
\* recorded PTT starts; after a handled ptt_start every recorded start is
\* less than 10 seconds old; after a handled signal the per-second counter
\* has buckets only for the current second and the 5 seconds before it, so
\* at most 6.
C24_RateStateBounded ==
    /\ \A s \in DOMAIN clients :
          Len(clients[s].pttStarts) <= MAX_PTT_STARTS_PER_10S
    /\ PttHandled =>
          \A i \in DOMAIN clients[last.sid].pttStarts :
             now - clients[last.sid].pttStarts[i] < PTT_WINDOW_MS
    /\ SignalHandled =>
          /\ DOMAIN clients[last.sid].chunksPerSecond \subseteq KeptSeconds(NowSec(now))
          /\ Cardinality(DOMAIN clients[last.sid].chunksPerSecond)
                <= CHUNK_KEEP_SECONDS + 1

\* a chunk was counted after older buckets were deleted: six buckets are
\* left, and the session holds ten starts recorded after a full window of
\* starts had aged out
C24_Witness ==
    /\ SignalHandled
    /\ NowSec(now) > CHUNK_KEEP_SECONDS
    /\ Cardinality(DOMAIN clients[last.sid].chunksPerSecond) = CHUNK_KEEP_SECONDS + 1
    /\ 0 \notin DOMAIN clients[last.sid].chunksPerSecond
    /\ handled[last.sid].n = 1
    /\ Len(clients[last.sid].pttStarts) = MAX_PTT_STARTS_PER_10S
    /\ Len(accepted[last.sid]) = 2 * MAX_PTT_STARTS_PER_10S

(* ========================= overlapping refreshes ======================= *)

\* the snapshot is the initial empty list or one whole answer
SnapshotComplete == CHANNELS = <<>> \/ CHANNELS \in Directories

\* the snapshot is never replaced by the answer to an older request
NoOlderAnswerInstalled == refresh'.installed >= refresh.installed

\* C25: when refresh requests overlap and are answered in any order, the
\* snapshot is always one complete answer (or the initial empty list), and
\* the answer to an earlier request never replaces a snapshot installed
\* from a later request.
C25_LatestFetchWins ==
    /\ []SnapshotComplete
    /\ [][NoOlderAnswerInstalled]_vars

(* ========================= minimal radio server ======================== *)

\* the audio and PTT messages among the emitted ones
MiniRelayed(e) == e.type \in {"signal", "ptt_state"}

\* C26: in the minimal radio server the chunks and PTT events of a session
\* go only to members of the channel it joined last, and a session is in
\* the room of no channel it has left, so it gets no signal, ptt_state or
\* channel_roster of that channel any more.
C26_MiniScopedToJoinedChannel ==
    /\ \A i \in DOMAIN events :
          MiniRelayed(events[i]) =>
             \A r \in events[i].to :
                MiniChannelsOf(channelMembers, r)
                   = MiniChannelsOf(channelMembers, events[i].sid)
    /\ \A c \in DOMAIN rooms : \A s \in rooms[c] :
          c \in MiniChannelsOf(channelMembers, s)

(* ===================== member sets and the registry ==================== *)

\* the registered sessions whose primary channel is c
SessionsOn(c) == {s \in DOMAIN clients : clients[s].currentChannel = c}

\* C27: every member set that is present holds exactly the registered
\* sessions whose currentChannel is its channel, each once; it holds no
\* session that is disconnected or not registered.
C27_MemberSetIsPrimarySessions ==
    \A c \in DOMAIN channelMembers :
       /\ Range(channelMembers[c]) = SessionsOn(c)
       /\ Len(channelMembers[c]) = Cardinality(SessionsOn(c))
       /\ \A s \in Range(channelMembers[c]) : connected[s] /\ Registered(s)

\* one session has switched channels after another one, a member before,
\* disconnected
C27_Witness ==
    /\ last.op = "joinChannel"
    /\ Len(events) = 3
    /\ SessionsOn(last.arg) = {last.sid}
    /\ \E c \in DOMAIN channelMembers : channelMembers[c] = <<>>
    /\ \E s \in Sockets : phase[s] = "closed" /\ s \notin DOMAIN clients

(* ========================= rosters and monitors ======================== *)

\* every roster of the step lists only sessions whose primary channel is the
\* roster's channel
RosterListsMembersOnly ==
    \A i \in DOMAIN events' :
       events'[i].type = "channel_roster" =>
          \A k \in DOMAIN events'[i].sids :
             /\ events'[i].sids[k] \in DOMAIN clients'
             /\ clients'[events'[i].sids[k]].currentChannel
                   = events'[i].channelId

\* monitorChannel and unmonitorChannel emit no roster, and the disconnect of
\* a session emits none for a channel it only monitors
MonitoringSilent ==
    /\ last'.op \in {"monitorChannel", "unmonitorChannel"} =>
          RostersOf(events') = <<>>
    /\ last'.op = "disconnect" /\ last'.sid \in DOMAIN clients =>
          \A c \in clients[last'.sid].monitoring :
             c # clients[last'.sid].currentChannel =>
                \A i \in DOMAIN events' :
                   events'[i].type = "channel_roster" =>
                      events'[i].channelId # c

\* every roster goes to the room of its channel as it is at the broadcast:
\* to every other session that is in the room, and to the session of the
\* event when the room holds it at the end of the handler
RosterReachesRoom ==
    LET rs == RostersOf(events') IN
    \A i \in DOMAIN rs :
       /\ \A m \in Sockets \ {last'.sid} :
             m \in rooms[rs[i].channelId] <=> m \in rs[i].to
       /\ i = Len(rs) => rs[i].to = rooms'[rs[i].channelId]

\* C28: a roster never lists a session that only monitors the channel;
\* monitorChannel, unmonitorChannel and the disconnect of a session that
\* only monitored a channel emit no channel_roster for it; every roster of a
\* channel is delivered to the monitors that are in its room.
C28_RostersIgnoreMonitors ==
    [][RosterListsMembersOnly /\ MonitoringSilent /\ RosterReachesRoom]_vars

\* a joinChannel sent the roster of the joined channel to a session that
\* only monitors it and is not listed
C28_Witness ==
    /\ last.op = "joinChannel"
    /\ events # <<>>
    /\ LET e == events[Len(events)] IN
       /\ e.type = "channel_roster"
       /\ \E m \in e.to :
             /\ e.channelId \in clients[m].monitoring
             /\ clients[m].currentChannel # e.channelId
             /\ m \notin Range(e.sids)

(* ========================== non-staff sessions ========================= *)

\* the registered sessions whose user is not staff
NonStaff == {s \in DOMAIN clients : ~userIsStaff(clients[s].user)}

\* a non-staff session monitors nothing and is in no room but the one of its
\* primary channel
NonStaffOnlyPrimary ==
    \A s \in NonStaff :
       /\ clients[s].monitoring = {}
       /\ \A c \in DOMAIN rooms :
             s \in rooms[c] => c = clients[s].currentChannel

\* a monitorChannel or unmonitorChannel of a non-staff session changes no
\* state; the only message is the denial of monitorChannel to the sender
NonStaffMonitorNoChange ==
    /\ last'.op \in {"monitorChannel", "unmonitorChannel"}
    /\ last'.sid \in NonStaff
    => /\ clients' = clients
       /\ rooms' = rooms
       /\ channelMembers' = channelMembers
       /\ CHANNELS' = CHANNELS
       /\ accepted' = accepted
       /\ handled' = handled
       /\ events' = IF last'.op = "monitorChannel"
                    THEN <<EmitSelf(last'.sid, "denied", last'.arg)>>
                    ELSE <<>>

\* C29: a non-staff session always has an empty monitoring set and is in
\* the delivery set of no channel other than its primary channel, and its
\* monitorChannel and unmonitorChannel events change no state.
C29_NonStaffNeverMonitors ==
    []NonStaffOnlyPrimary /\ [][NonStaffMonitorNoChange]_vars

\* a non-staff session with a primary channel was denied monitoring another
\* channel, which a staff session monitors
C29_Witness ==
    /\ last.op = "monitorChannel"
    /\ last.sid \in NonStaff
    /\ events = <<EmitSelf(last.sid, "denied", last.arg)>>
    /\ clients[last.sid].currentChannel \notin {NoChannel, last.arg}
    /\ \E m \in DOMAIN clients : last.arg \in clients[m].monitoring

(* ===================== joining the primary channel again =============== *)

\* a joinChannel for the channel that already is the session's primary one
RejoinRequested ==
    /\ last'.op = "joinChannel"
    /\ last'.sid \in DOMAIN clients
    /\ clients[last'.sid].currentChannel = last'.arg

\* the registry, the rooms and every member set (as a set without
\* repetition) are as before, and the session is a member and in the room
RejoinKeepsState ==
    /\ clients' = clients
    /\ rooms' = rooms
    /\ DOMAIN channelMembers' = DOMAIN channelMembers
    /\ \A c \in DOMAIN channelMembers :
          /\ Range(channelMembers'[c]) = Range(channelMembers[c])
          /\ Len(channelMembers'[c]) = Len(channelMembers[c])
    /\ Cardinality({i \in DOMAIN channelMembers'[last'.arg] :
                       channelMembers'[last'.arg][i] = last'.sid}) = 1
    /\ last'.sid \in rooms'[last'.arg]
    /\ accepted' = accepted
    /\ handled' = handled

\* the last roster the step emits is one of the channel and lists the
\* session
RejoinLastRoster ==
    LET rs == RostersOf(events') IN
    /\ rs # <<>>
    /\ rs[Len(rs)].channelId = last'.arg
    /\ last'.sid \in Range(rs[Len(rs)].sids)
    /\ rs[Len(rs)].to = rooms'[last'.arg]

\* C30: joinChannel(A) of a session whose primary channel is A leaves the
\* session with primary channel A, once in A's member set and in A's room,
\* leaves every other session, member set and monitoring set as they were,
\* and, when the join is carried out, ends with a roster of A that lists
\* the session.
C30_RejoinIdempotent ==
    [][RejoinRequested =>
          /\ RejoinKeepsState
          /\ JoinedStep => RejoinLastRoster]_vars

\* a staff session that also monitors its primary channel joined it again
\* while another session is a member of it
C30_Witness ==
    /\ last.op = "joinChannel"
    /\ Len(events) = 3
    /\ events[1].channelId = last.arg
    /\ events[3].channelId = last.arg
    /\ last.sid \notin Range(events[1].sids)
    /\ Len(events[3].sids) = 2
    /\ last.arg \in clients[last.sid].monitoring

====
